---- MODULE Spec2Model ----
(***************************************************************************)
(* A model of the DNS server of app/dns.py and app/main.py: the wire codec *)
(* (DNSMessage), the direct-serving loop (_run_server) and the forwarding  *)
(* loop (_run_forwarding_server) with its upstream resolver.               *)
(*                                                                         *)
(* A packet (Python bytes) is a sequence of byte values 0..255; Python's   *)
(* 0-based packet[i] is the model's packet[i + 1].  A Python str is a      *)
(* sequence of code points; str.encode() and bytes.decode() are UTF-8.     *)
(***************************************************************************)
EXTENDS Integers, Sequences, FiniteSets, TLC

VARIABLES mode, pc, nRecv, nSent, buf, qh, offset, names, stack, parsed,
          answers, k, final, wire, inbox, sentUp, response, exc, failed,
          h, hwire, hback

vars == <<mode, pc, nRecv, nSent, buf, qh, offset, names, stack, parsed,
          answers, k, final, wire, inbox, sentUp, response, exc, failed,
          h, hwire, hback>>

serverVars == <<mode, pc, nRecv, nSent, buf, qh, offset, names, stack, parsed,
                answers, k, final, wire, inbox, sentUp, response, exc, failed>>

codecVars == <<h, hwire, hback>>

(***************************************************************************)
(* Bounds of the model.                                                    *)
(***************************************************************************)
\* datagrams the listening socket delivers in one run
MaxDatagrams == 2
\* trailing bytes after the question section of the padded packets; with it
\* a compression byte 0xC0 passes the overflow test of parse_question
PadLen == 200
\* frames parse_question may nest before the interpreter raises RecursionError
\* (CPython's recursion limit, scaled down)
MaxDepth == 3

(***************************************************************************)
(* Program constants (class attributes of DNSMessage).                     *)
(***************************************************************************)
TYPE == 1
CLASS == 1
TTL == 60
HEADER_SIZE == 12
IS_COMPRESSED_LABEL_MASK == 192
LABEL_POINTER_MASK == 63
\* socket.recvfrom(512) / recv(512)
RECV_SIZE == 512

(***************************************************************************)
(* Integer and byte helpers.                                               *)
(***************************************************************************)
RECURSIVE BitAnd(_, _)
BitAnd(a, b) ==
    IF a = 0 \/ b = 0 THEN 0
    ELSE (a % 2) * (b % 2) + 2 * BitAnd(a \div 2, b \div 2)

RECURSIVE BitOr(_, _)
BitOr(a, b) ==
    IF a = 0 THEN b
    ELSE IF b = 0 THEN a
    ELSE (IF ((a % 2) + (b % 2)) > 0 THEN 1 ELSE 0) + 2 * BitOr(a \div 2, b \div 2)

RECURSIVE Pow2(_)
Pow2(n) == IF n = 0 THEN 1 ELSE 2 * Pow2(n - 1)

Shl(a, n) == a * Pow2(n)
Shr(a, n) == a \div Pow2(n)

\* struct "H": a 16-bit unsigned integer, big-endian
PackH(n) == <<n \div 256, n % 256>>
UnpackH(b1, b2) == b1 * 256 + b2

RECURSIVE Concat(_)
Concat(ss) == IF ss = <<>> THEN <<>> ELSE Head(ss) \o Concat(Tail(ss))

\* bytes slice packet[from:], 0-based as in Python
SliceFrom(packet, from) ==
    IF from >= Len(packet) THEN <<>> ELSE SubSeq(packet, from + 1, Len(packet))

\* bytes slice packet[:to], 0-based as in Python
SliceTo(packet, to) ==
    IF to >= Len(packet) THEN packet ELSE SubSeq(packet, 1, to)

(***************************************************************************)
(* UTF-8, for byte values below 0xE0 and code points below 0x800: the one- *)
(* and two-byte forms.                                                     *)
(***************************************************************************)
RECURSIVE Utf8Encode(_)
Utf8Encode(s) ==
    IF s = <<>> THEN <<>>
    ELSE (IF Head(s) < 128 THEN <<Head(s)>>
          ELSE <<192 + (Head(s) \div 64), 128 + (Head(s) % 64)>>)
         \o Utf8Encode(Tail(s))

RECURSIVE Utf8Valid(_)
Utf8Valid(b) ==
    IF b = <<>> THEN TRUE
    ELSE IF Head(b) < 128 THEN Utf8Valid(Tail(b))
    ELSE IF Head(b) >= 194 /\ Head(b) < 224 /\ Len(b) >= 2
            /\ b[2] >= 128 /\ b[2] < 192
         THEN Utf8Valid(Tail(Tail(b)))
    ELSE FALSE

RECURSIVE Utf8Decode(_)
Utf8Decode(b) ==
    IF b = <<>> THEN <<>>
    ELSE IF Head(b) < 128 THEN <<Head(b)>> \o Utf8Decode(Tail(b))
    ELSE <<(Head(b) - 192) * 64 + (b[2] - 128)>> \o Utf8Decode(Tail(Tail(b)))

(***************************************************************************)
(* Python str helpers: ".".join(pieces) and name.split(".").               *)
(***************************************************************************)
Dot == 46

RECURSIVE Join(_)
Join(pieces) ==
    IF pieces = <<>> THEN <<>>
    ELSE IF Len(pieces) = 1 THEN pieces[1]
    ELSE pieces[1] \o <<Dot>> \o Join(Tail(pieces))

RECURSIVE SplitAcc(_, _, _)
SplitAcc(s, cur, acc) ==
    IF s = <<>> THEN Append(acc, cur)
    ELSE IF Head(s) = Dot THEN SplitAcc(Tail(s), <<>>, Append(acc, cur))
    ELSE SplitAcc(Tail(s), Append(cur, Head(s)), acc)

Split(s) == SplitAcc(s, <<>>, <<>>)

(***************************************************************************)
(* DNSMessage: encoding.                                                   *)
(***************************************************************************)
DNSHeader(id, opcode, rd, rcode, qd) ==
    [packet_id |-> id, operation_code |-> opcode, recursion_desired |-> rd,
     response_code |-> rcode, question_count |-> qd]

\* number.to_bytes(length).decode(): big-endian, every byte below 128 here
RECURSIVE as_string_of_bytes(_, _)
as_string_of_bytes(number, length) ==
    IF length = 0 THEN <<>>
    ELSE as_string_of_bytes(number \div 256, length - 1) \o <<number % 256>>

RECURSIVE LabelsOf(_)
LabelsOf(labels) ==
    IF labels = <<>> THEN <<>>
    ELSE <<Len(Head(labels))>> \o Head(labels) \o LabelsOf(Tail(labels))

as_label_sequence(name) == LabelsOf(Split(name)) \o <<0>>

create_header_flags1(QR, query_header) ==
    BitOr(BitOr(BitOr(BitOr(Shl(QR, 7), Shl(query_header.operation_code, 3)),
                      Shl(0, 2)), Shl(0, 1)),
          query_header.recursion_desired)

create_header_flags2(query_header) ==
    BitOr(Shl(0, 7), query_header.response_code)

\* self.QR is the indicator the DNSMessage was constructed with
create_header(QR, query_header, question_count, answer_count) ==
    PackH(query_header.packet_id)
    \o <<create_header_flags1(QR, query_header), create_header_flags2(query_header)>>
    \o PackH(question_count) \o PackH(answer_count) \o PackH(0) \o PackH(0)

create_question(domain_name) ==
    as_label_sequence(domain_name)
    \o as_string_of_bytes(TYPE, 2) \o as_string_of_bytes(CLASS, 2)

\* the hardcoded address "8.8.8.8"
ip_address_data == <<8, 8, 8, 8>>

create_answer(domain_name) ==
    as_label_sequence(domain_name)
    \o as_string_of_bytes(TYPE, 2) \o as_string_of_bytes(CLASS, 2)
    \o as_string_of_bytes(60, 4)
    \o as_string_of_bytes(Len(ip_address_data), 2) \o ip_address_data

(***************************************************************************)
(* DNSMessage: decoding.                                                   *)
(***************************************************************************)
\* struct.unpack("!HBBHHHH", header) raises struct.error unless it gets 12 bytes
parse_header_ok(header) == Len(header) = HEADER_SIZE

\* a parse_header that answers "no error" whatever the operation code
parse_header_rcode_zero(opcode) == 0

parse_header_rcode(opcode) == IF opcode = 0 THEN 0 ELSE 4

\* a parse_header that masks the operation code without shifting it
parse_header_unshifted(header) ==
    LET packet_id == UnpackH(header[1], header[2])
        flags1 == header[3]
        qdcount == UnpackH(header[5], header[6])
        opcode == BitAnd(flags1, 15)
        rd_bit == BitAnd(flags1, 1)
    IN  DNSHeader(packet_id, opcode, rd_bit, parse_header_rcode(opcode), qdcount)

parse_header(header) ==
    LET packet_id == UnpackH(header[1], header[2])
        flags1 == header[3]
        qdcount == UnpackH(header[5], header[6])
        opcode == BitAnd(Shr(flags1, 3), 15)
        rd_bit == BitAnd(flags1, 1)
    IN  DNSHeader(packet_id, opcode, rd_bit, parse_header_rcode(opcode), qdcount)

is_compressed_label(length) == BitAnd(length, IS_COMPRESSED_LABEL_MASK) # 0

\* the offset _follow_label_pointer re-enters parse_question at
follow_label_pointer_target(packet, off, length) ==
    BitOr(Shl(BitAnd(length, LABEL_POINTER_MASK), 8), packet[(off + 1) + 1])

\* the test of parse_question's "Avoid overflowing" break
parse_question_overflows(packet, off, length) ==
    off + length >= Len(packet) - 1

\* what parse_question adds to the offset when its loop has ended
parse_question_skip == 4 + 1

Frame(off) == [offset |-> off, pieces |-> <<>>, seen |-> {}]

(***************************************************************************)
(* One step of parse_question on the innermost frame of the call stack:    *)
(* one evaluation of the while condition and the loop body it leads to.    *)
(* A frame keeps the offsets at which it has evaluated the condition: what *)
(* the loop does next depends on the packet and the offset alone, so a     *)
(* frame that is back at an offset it has been at repeats for ever         *)
(* ("hung").                                                               *)
(***************************************************************************)
ParseStep(packet, stk) ==
    LET top == stk[Len(stk)]
        off == top.offset
        rest == SubSeq(stk, 1, Len(stk) - 1)
        length == packet[off + 1]
        done == [kind |-> "return", name |-> Join(top.pieces),
                 offset |-> off + parse_question_skip]
    IN  IF off \in top.seen THEN [kind |-> "hung"]
        ELSE IF off >= Len(packet) THEN [kind |-> "raise", exc |-> "IndexError"]
        ELSE IF length = 0 THEN done
        ELSE IF parse_question_overflows(packet, off, length) THEN done
        ELSE IF is_compressed_label(length)
        THEN LET target == follow_label_pointer_target(packet, off, length)
             IN  IF Len(stk) >= MaxDepth
                 THEN [kind |-> "raise", exc |-> "RecursionError"]
                 ELSE [kind |-> "continue",
                       stack |-> Append(rest, [top EXCEPT !.seen = @ \cup {off}])
                                 \o <<Frame(target)>>]
        ELSE LET data == SubSeq(packet, off + 2, off + 1 + length)
             IN  IF ~Utf8Valid(data)
                 THEN [kind |-> "raise", exc |-> "UnicodeDecodeError"]
                 ELSE [kind |-> "continue",
                       stack |-> Append(rest,
                           [offset |-> off + 1 + length,
                            pieces |-> Append(top.pieces, Utf8Decode(data)),
                            seen |-> top.seen \cup {off}])]

\* a return of an inner call: _follow_label_pointer hands (name, offset) to
\* the frame below, which appends the name and goes on at the offset
ParseResume(stk, r) ==
    LET caller == stk[Len(stk) - 1]
    IN  Append(SubSeq(stk, 1, Len(stk) - 2),
               [caller EXCEPT !.offset = r.offset,
                              !.pieces = Append(@, r.name)])

\* ParseStep with the returns of inner calls folded in: "return" is left
\* only for the outermost frame
Step(packet, stk) ==
    LET r == ParseStep(packet, stk)
    IN  IF r.kind = "return" /\ Len(stk) > 1
        THEN [kind |-> "continue", stack |-> ParseResume(stk, r)]
        ELSE r

(***************************************************************************)
(* The datagrams the model's clients send.                                 *)
(***************************************************************************)
Hdr(id, flags1, flags2, qd) ==
    PackH(id) \o <<flags1, flags2>> \o PackH(qd) \o <<0, 0, 0, 0, 0, 0>>

Pad(n) == [i \in 1..n |-> 0]

\* question sections: "a", "b.c", a pointer to offset 12, and so on
QA == <<1, 97, 0, 0, 1, 0, 1>>
QB == <<1, 98, 0, 0, 1, 0, 1>>
QBC == <<1, 98, 1, 99, 0, 0, 1, 0, 1>>
QPtr12 == <<192, 12, 0, 1, 0, 1>>
QPtrFar == <<192, 255, 0, 1, 0, 1>>
QEacute == <<2, 195, 169, 0, 0, 1, 0, 1>>
QBadUtf8 == <<1, 192, 0, 0, 1, 0, 1>>
QCut == <<3, 97, 98>>

\* every OPCODE and RD, with the other flag bits all clear or all set
FlagChoices ==
    { [id |-> IF x = 0 THEN 1234 ELSE 65535,
       flags1 |-> 8 * op + rd + x * 134,
       flags2 |-> x * 255] : op \in 0..15, rd \in 0..1, x \in 0..1 }

PlainQueries ==
    { Hdr(f.id, f.flags1, f.flags2, Len(qs)) \o Concat(qs) :
        f \in FlagChoices, qs \in {<<QA>>, <<QA, QBC>>} }

OddQueries ==
    { Hdr(1234, 1, 0, 2) \o QA \o QPtr12,
      Hdr(1234, 1, 0, 2) \o QA \o QPtr12 \o Pad(PadLen),
      Hdr(1234, 1, 0, 3) \o QA \o QB \o QPtr12 \o Pad(PadLen),
      Hdr(1234, 1, 0, 1) \o QPtr12 \o Pad(PadLen),
      Hdr(1234, 1, 0, 1) \o QPtrFar \o Pad(PadLen),
      Hdr(1234, 1, 0, 2) \o QA \o QPtrFar \o Pad(PadLen),
      Hdr(1234, 1, 0, 1),
      Hdr(1234, 1, 0, 2) \o QA,
      Hdr(1234, 1, 0, 1) \o QCut,
      Hdr(1234, 1, 0, 2) \o QA \o QCut,
      Hdr(1234, 1, 0, 1) \o QBadUtf8,
      Hdr(1234, 1, 0, 1) \o QEacute,
      Hdr(1234, 1, 0, 2) \o QEacute \o QA,
      Hdr(1234, 1, 0, 1) \o <<0, 0, 1, 0, 1>>,
      Hdr(1234, 1, 0, 0),
      <<4, 210, 1>> }

Inbound == PlainQueries \cup OddQueries

(***************************************************************************)
(* The upstream resolver: it answers a request with the request's          *)
(* identifier and question section and one A record, whose name is a       *)
(* pointer to offset 12 or the name written out.                           *)
(***************************************************************************)
UpstreamRData == <<1, 2, 3, 4>>

UpstreamReply(req, compress) ==
    LET qsec == SliceFrom(req, HEADER_SIZE)
        owner == IF compress \/ Len(qsec) < 5 THEN <<192, 12>>
                 ELSE SubSeq(qsec, 1, Len(qsec) - 4)
    IN  SubSeq(req, 1, 2) \o <<128 + (req[3] % 128), 128>>
        \o PackH(1) \o PackH(1) \o PackH(0) \o PackH(0)
        \o qsec
        \o owner \o <<0, 1, 0, 1, 0, 0, 0, 60, 0, 4>> \o UpstreamRData

UpstreamReplies(req) == { UpstreamReply(req, c) : c \in BOOLEAN }

(***************************************************************************)
(* The server.  pc is the loop's position:                                 *)
(*   recv      blocked in udp_socket.recvfrom                              *)
(*   d_loop    _run_server, between two questions                          *)
(*   d_parse   _run_server, inside parse_question                          *)
(*   f_loop    _run_forwarding_server, split loop, between two questions   *)
(*   f_parse   split loop, inside parse_question                           *)
(*   f_send    split loop, about to send the sub-query                     *)
(*   f_recv    split loop, blocked in client_socket.recv                   *)
(*   f_merge   merge loop, between two answers                             *)
(*   f_mparse  merge loop, inside parse_question                           *)
(*   f_pass    one question or none: about to forward buf                  *)
(*   p_recv    one question or none: blocked in client_socket.recv         *)
(*   stopped   _run_server has left its loop (except ... break)            *)
(*   crashed   _run_forwarding_server has ended with an exception          *)
(*   hung      parse_question is in a loop it never leaves                 *)
(***************************************************************************)
NoHeader == DNSHeader(0, 0, 0, 0, 0)

ServerInit ==
    /\ pc = "recv"
    /\ nRecv = 0
    /\ nSent = 0
    /\ buf = <<>>
    /\ qh = NoHeader
    /\ offset = 0
    /\ names = <<>>
    /\ stack = <<>>
    /\ parsed = <<>>
    /\ answers = <<>>
    /\ k = 0
    /\ final = <<>>
    /\ wire = <<>>
    /\ inbox = <<>>
    /\ sentUp = <<>>
    /\ response = <<>>
    /\ exc = "none"
    /\ failed = FALSE

CodecIdle ==
    /\ h = NoHeader
    /\ hwire = <<>>
    /\ hback = <<>>

\* main(): args.resolver selects the loop
Init ==
    /\ mode \in {"direct", "forward"}
    /\ ServerInit
    /\ CodecIdle

\* udp_socket.recvfrom(512) and the statements up to the first question;
\* the locals of the previous iteration are gone
Receive(d, okPc, onError) ==
    /\ pc = "recv"
    /\ nRecv < MaxDatagrams
    /\ nRecv' = nRecv + 1
    /\ buf' = SliceTo(d, RECV_SIZE)
    /\ offset' = HEADER_SIZE
    /\ names' = <<>>
    /\ parsed' = <<>>
    /\ answers' = <<>>
    /\ k' = 0
    /\ final' = <<>>
    /\ wire' = <<>>
    /\ inbox' = <<>>
    /\ sentUp' = <<>>
    /\ response' = <<>>
    /\ failed' = FALSE
    /\ stack' = <<>>
    /\ IF parse_header_ok(SliceTo(buf', HEADER_SIZE))
       THEN /\ qh' = parse_header(SliceTo(buf', HEADER_SIZE))
            /\ pc' = okPc
            /\ exc' = exc
       ELSE /\ qh' = qh
            /\ pc' = onError
            /\ exc' = "struct.error"
    /\ UNCHANGED <<mode, nSent, codecVars>>

(***************************************************************************)
(* _run_server                                                             *)
(***************************************************************************)
\* buf[: DNSMessage.HEADER_SIZE]
HeaderOf(d) == SliceTo(SliceTo(d, RECV_SIZE), HEADER_SIZE)

ServerReceive ==
    /\ mode = "direct"
    /\ \E d \in Inbound : Receive(d, "d_loop", "stopped")

ServerParseCall ==
    /\ pc = "d_loop"
    /\ Len(names) < qh.question_count
    /\ stack' = <<Frame(offset)>>
    /\ pc' = "d_parse"
    /\ UNCHANGED <<mode, nRecv, nSent, buf, qh, offset, names, parsed, answers,
                   k, final, wire, inbox, sentUp, response, exc, failed, codecVars>>

ServerParseStep ==
    /\ pc = "d_parse"
    /\ LET r == Step(buf, stack)
       IN  CASE r.kind = "continue" ->
                  /\ stack' = r.stack
                  /\ UNCHANGED <<pc, names, offset, parsed, exc>>
             [] r.kind = "return" ->
                  /\ stack' = <<>>
                  /\ names' = Append(names, r.name)
                  /\ offset' = r.offset
                  /\ parsed' = Append(parsed, [packet |-> buf, start |-> offset,
                                               name |-> r.name, next |-> r.offset])
                  /\ pc' = "d_loop"
                  /\ exc' = exc
             [] r.kind = "raise" ->
                  /\ exc' = r.exc
                  /\ pc' = "stopped"
                  /\ UNCHANGED <<stack, names, offset, parsed>>
             [] r.kind = "hung" ->
                  /\ pc' = "hung"
                  /\ UNCHANGED <<stack, names, offset, parsed, exc>>
    /\ UNCHANGED <<mode, nRecv, nSent, buf, qh, answers, k, final, wire, inbox,
                   sentUp, response, failed, codecVars>>

RECURSIVE QuestionsOf(_)
QuestionsOf(domain_names) ==
    IF domain_names = <<>> THEN <<>>
    ELSE create_question(Head(domain_names)) \o QuestionsOf(Tail(domain_names))

RECURSIVE AnswersOf(_)
AnswersOf(domain_names) ==
    IF domain_names = <<>> THEN <<>>
    ELSE create_answer(Head(domain_names)) \o AnswersOf(Tail(domain_names))

RECURSIVE PairsOf(_)
PairsOf(domain_names) ==
    IF domain_names = <<>> THEN <<>>
    ELSE create_question(Head(domain_names)) \o create_answer(Head(domain_names))
         \o PairsOf(Tail(domain_names))

\* a _run_server that writes each answer right after its question
ServerResponseInterleaved(query_header, domain_names) ==
    create_header(1, query_header, query_header.question_count, Len(domain_names))
    \o Utf8Encode(PairsOf(domain_names))

\* lines 21-34: the response of _run_server
ServerResponse(query_header, domain_names) ==
    create_header(1, query_header, query_header.question_count, Len(domain_names))
    \o Utf8Encode(QuestionsOf(domain_names))
    \o Utf8Encode(AnswersOf(domain_names))

ServerRespond ==
    /\ pc = "d_loop"
    /\ Len(names) >= qh.question_count
    /\ response' = ServerResponse(qh, names)
    /\ nSent' = nSent + 1
    /\ pc' = "recv"
    /\ UNCHANGED <<mode, nRecv, buf, qh, offset, names, stack, parsed, answers,
                   k, final, wire, inbox, sentUp, exc, failed, codecVars>>

(***************************************************************************)
(* _run_forwarding_server                                                  *)
(***************************************************************************)
\* line 52: if query_header.question_count > 1
FwdAfterHeader(d) ==
    IF ~parse_header_ok(HeaderOf(d)) THEN "crashed"
    ELSE IF parse_header(HeaderOf(d)).question_count > 1 THEN "f_loop"
    ELSE "f_pass"

FwdReceive ==
    /\ mode = "forward"
    /\ \E d \in Inbound : Receive(d, FwdAfterHeader(d), "crashed")

FwdParseCall ==
    /\ pc = "f_loop"
    /\ Len(answers) < qh.question_count
    /\ stack' = <<Frame(offset)>>
    /\ pc' = "f_parse"
    /\ UNCHANGED <<mode, nRecv, nSent, buf, qh, offset, names, parsed, answers,
                   k, final, wire, inbox, sentUp, response, exc, failed, codecVars>>

FwdParseStep ==
    /\ pc = "f_parse"
    /\ LET r == Step(buf, stack)
       IN  CASE r.kind = "continue" ->
                  /\ stack' = r.stack
                  /\ UNCHANGED <<pc, names, offset, parsed, exc>>
             [] r.kind = "return" ->
                  /\ stack' = <<>>
                  /\ names' = Append(names, r.name)
                  /\ offset' = r.offset
                  /\ parsed' = Append(parsed, [packet |-> buf, start |-> offset,
                                               name |-> r.name, next |-> r.offset])
                  /\ pc' = "f_send"
                  /\ exc' = exc
             [] r.kind = "raise" ->
                  /\ exc' = r.exc
                  /\ pc' = "crashed"
                  /\ UNCHANGED <<stack, names, offset, parsed>>
             [] r.kind = "hung" ->
                  /\ pc' = "hung"
                  /\ UNCHANGED <<stack, names, offset, parsed, exc>>
    /\ UNCHANGED <<mode, nRecv, nSent, buf, qh, answers, k, final, wire, inbox,
                   sentUp, response, failed, codecVars>>

\* lines 60-76: the single-question request for one name
SubRequest(query_header, domain_name) ==
    create_header(0,
                  DNSHeader(query_header.packet_id, query_header.operation_code,
                            query_header.recursion_desired,
                            query_header.response_code, 1),
                  1, 1)
    \o Utf8Encode(create_question(domain_name))

\* a pass-through that rebuilds the header of the query it forwards
PassRequestRebuilt(inbound) ==
    create_header(0, parse_header(SliceTo(inbound, HEADER_SIZE)), 1, 0)
    \o SliceFrom(inbound, HEADER_SIZE)

\* line 111: what the pass-through branch sends upstream
PassRequest(inbound) == inbound

\* line 115: what the pass-through branch sends back
PassResponse(server_response) == server_response

\* a split loop that sends the next sub-query without waiting for the reply
AfterSubQueryNoWait == "f_loop"

\* the statement after client_socket.sendto in the split loop: the recv
AfterSubQuery == "f_recv"

FwdSend ==
    /\ pc = "f_send"
    /\ LET request == SubRequest(qh, names[Len(names)])
       IN  /\ wire' = Append(wire, request)
           /\ sentUp' = Append(sentUp, request)
    /\ pc' = AfterSubQuery
    /\ UNCHANGED <<mode, nRecv, nSent, buf, qh, offset, names, stack, parsed,
                   answers, k, final, inbox, response, exc, failed, codecVars>>

FwdPassSend ==
    /\ pc = "f_pass"
    /\ wire' = Append(wire, PassRequest(buf))
    /\ sentUp' = Append(sentUp, PassRequest(buf))
    /\ pc' = "p_recv"
    /\ UNCHANGED <<mode, nRecv, nSent, buf, qh, offset, names, stack, parsed,
                   answers, k, final, inbox, response, exc, failed, codecVars>>

\* client_socket.sendto raises OSError: nothing catches it
FwdSendFails ==
    /\ pc \in {"f_send", "f_pass"}
    /\ exc' = "OSError"
    /\ failed' = TRUE
    /\ pc' = "crashed"
    /\ UNCHANGED <<mode, nRecv, nSent, buf, qh, offset, names, stack, parsed,
                   answers, k, final, wire, inbox, sentUp, response, codecVars>>

\* the upstream resolver answers the oldest request in flight
UpstreamAnswers ==
    /\ wire # <<>>
    /\ \E reply \in UpstreamReplies(Head(wire)) :
          inbox' = Append(inbox, reply)
    /\ wire' = Tail(wire)
    /\ UNCHANGED <<mode, pc, nRecv, nSent, buf, qh, offset, names, stack, parsed,
                   answers, k, final, sentUp, response, exc, failed, codecVars>>

\* the request or its reply is lost: no reply will arrive
UpstreamLoses ==
    /\ wire # <<>>
    /\ wire' = Tail(wire)
    /\ failed' = TRUE
    /\ UNCHANGED <<mode, pc, nRecv, nSent, buf, qh, offset, names, stack, parsed,
                   answers, k, final, inbox, sentUp, response, exc, codecVars>>

\* a recv that gives up and returns nothing when no datagram is there
ClientRecvTimeout(box) ==
    IF box # <<>> THEN {SliceTo(Head(box), RECV_SIZE)} ELSE {<<>>}

\* client_socket.recv(512) blocks until a datagram is there
ClientRecv(box) == IF box # <<>> THEN {SliceTo(Head(box), RECV_SIZE)} ELSE {}

FwdRecv ==
    /\ pc = "f_recv"
    /\ \E data \in ClientRecv(inbox) : answers' = Append(answers, data)
    /\ inbox' = IF inbox # <<>> THEN Tail(inbox) ELSE inbox
    /\ pc' = "f_loop"
    /\ UNCHANGED <<mode, nRecv, nSent, buf, qh, offset, names, stack, parsed,
                   k, final, wire, sentUp, response, exc, failed, codecVars>>

\* lines 84-95: the header of the merged response
MergedHeader(query_header, replies) ==
    create_header(1,
                  DNSHeader(query_header.packet_id, query_header.operation_code,
                            query_header.recursion_desired,
                            query_header.response_code,
                            query_header.question_count),
                  query_header.question_count, Len(replies))

FwdMergeStart ==
    /\ pc = "f_loop"
    /\ Len(answers) >= qh.question_count
    /\ final' = MergedHeader(qh, answers)
    /\ k' = 1
    /\ pc' = "f_merge"
    /\ UNCHANGED <<mode, nRecv, nSent, buf, qh, offset, names, stack, parsed,
                   answers, wire, inbox, sentUp, response, exc, failed, codecVars>>

FwdMergeCall ==
    /\ pc = "f_merge"
    /\ k <= Len(answers)
    /\ offset' = HEADER_SIZE
    /\ stack' = <<Frame(HEADER_SIZE)>>
    /\ pc' = "f_mparse"
    /\ UNCHANGED <<mode, nRecv, nSent, buf, qh, names, parsed, answers,
                   k, final, wire, inbox, sentUp, response, exc, failed, codecVars>>

\* lines 103-105: what one answer adds to the merged response
MergedPart(domain_name, answer) ==
    Utf8Encode(create_question(domain_name)) \o SliceFrom(answer, HEADER_SIZE)

FwdMergeStep ==
    /\ pc = "f_mparse"
    /\ LET r == Step(answers[k], stack)
       IN  CASE r.kind = "continue" ->
                  /\ stack' = r.stack
                  /\ UNCHANGED <<pc, k, final, offset, parsed, exc>>
             [] r.kind = "return" ->
                  /\ stack' = <<>>
                  /\ offset' = r.offset
                  /\ final' = final \o MergedPart(r.name, answers[k])
                  /\ parsed' = Append(parsed, [packet |-> answers[k], start |-> offset,
                                               name |-> r.name, next |-> r.offset])
                  /\ k' = k + 1
                  /\ pc' = "f_merge"
                  /\ exc' = exc
             [] r.kind = "raise" ->
                  /\ exc' = r.exc
                  /\ pc' = "crashed"
                  /\ UNCHANGED <<stack, k, final, offset, parsed>>
             [] r.kind = "hung" ->
                  /\ pc' = "hung"
                  /\ UNCHANGED <<stack, k, final, offset, parsed, exc>>
    /\ UNCHANGED <<mode, nRecv, nSent, buf, qh, names, answers, wire, inbox,
                   sentUp, response, failed, codecVars>>

FwdRespond ==
    /\ pc = "f_merge"
    /\ k > Len(answers)
    /\ response' = final
    /\ nSent' = nSent + 1
    /\ pc' = "recv"
    /\ UNCHANGED <<mode, nRecv, buf, qh, offset, names, stack, parsed, answers,
                   k, final, wire, inbox, sentUp, exc, failed, codecVars>>

\* lines 113-115: recv, then sendto the client
FwdPassRespond ==
    /\ pc = "p_recv"
    /\ \E data \in ClientRecv(inbox) :
          /\ answers' = Append(answers, data)
          /\ response' = PassResponse(data)
    /\ inbox' = IF inbox # <<>> THEN Tail(inbox) ELSE inbox
    /\ nSent' = nSent + 1
    /\ pc' = "recv"
    /\ UNCHANGED <<mode, nRecv, buf, qh, offset, names, stack, parsed,
                   k, final, wire, sentUp, exc, failed, codecVars>>

Next ==
    \/ ServerReceive
    \/ ServerParseCall
    \/ ServerParseStep
    \/ ServerRespond
    \/ FwdReceive
    \/ FwdParseCall
    \/ FwdParseStep
    \/ FwdSend
    \/ FwdPassSend
    \/ FwdSendFails
    \/ UpstreamAnswers
    \/ UpstreamLoses
    \/ FwdRecv
    \/ FwdMergeStart
    \/ FwdMergeCall
    \/ FwdMergeStep
    \/ FwdRespond
    \/ FwdPassRespond

Spec == Init /\ [][Next]_vars

(***************************************************************************)
(* The header codec on its own: a header record is encoded by              *)
(* create_header and the 12 bytes are decoded by parse_header.             *)
(***************************************************************************)
CodecHeaders ==
    { DNSHeader(id, op, rd, rc, qd) :
        id \in {0, 65535}, op \in 0..15, rd \in 0..1, rc \in 0..15,
        qd \in {0, 1, 65535} }

CodecInit ==
    /\ mode = "direct"
    /\ ServerInit
    /\ h \in CodecHeaders
    /\ hwire = <<>>
    /\ hback = <<>>

CodecEncode ==
    /\ hwire = <<>>
    /\ \E qr \in 0..1, ac \in {0, 1, 65535} :
          hwire' = create_header(qr, h, h.question_count, ac)
    /\ UNCHANGED <<h, hback, serverVars>>

CodecDecode ==
    /\ hwire # <<>>
    /\ hback = <<>>
    /\ parse_header_ok(hwire)
    /\ hback' = <<parse_header(hwire)>>
    /\ UNCHANGED <<h, hwire, serverVars>>

CodecNext == CodecEncode \/ CodecDecode

CodecSpec == CodecInit /\ [][CodecNext]_vars

(***************************************************************************)
(* What the properties below read.                                         *)
(***************************************************************************)
\* the response to the datagram in buf has been sent
Responded == nRecv > 0 /\ nSent = nRecv

\* the fields of a 12-byte header on the wire, by arithmetic
WireQR(b) == b[3] \div 128
WireOPCODE(b) == (b[3] \div 8) % 16
WireAA(b) == (b[3] \div 4) % 2
WireTC(b) == (b[3] \div 2) % 2
WireRD(b) == b[3] % 2
WireRA(b) == b[4] \div 128
WireZ(b) == (b[4] \div 16) % 8
WireRCODE(b) == b[4] % 16
WireQDCOUNT(b) == b[5] * 256 + b[6]
WireANCOUNT(b) == b[7] * 256 + b[8]

\* a name written out in full at 0-based offset p: its labels and the offset
\* after its zero byte
RECURSIVE RefName(_, _)
RefName(packet, p) ==
    IF p >= Len(packet) THEN [ok |-> FALSE, labels |-> <<>>, end |-> Len(packet)]
    ELSE LET n == packet[p + 1]
         IN  IF n = 0 THEN [ok |-> TRUE, labels |-> <<>>, end |-> p + 1]
             ELSE IF n >= 64 \/ p + 1 + n > Len(packet)
             THEN [ok |-> FALSE, labels |-> <<>>, end |-> Len(packet)]
             ELSE LET r == RefName(packet, p + 1 + n)
                  IN  [ok |-> r.ok,
                       labels |-> <<SubSeq(packet, p + 2, p + 1 + n)>> \o r.labels,
                       end |-> r.end]

\* the 0-based offset of the i-th question of a packet whose names are
\* written out in full
RECURSIVE RefStart(_, _)
RefStart(packet, i) ==
    IF i = 1 THEN HEADER_SIZE
    ELSE RefName(packet, RefStart(packet, i - 1)).end + 4

RefOk(packet, i) ==
    \A j \in 1..i : /\ RefName(packet, RefStart(packet, j)).ok
                    /\ RefName(packet, RefStart(packet, j)).end + 4 <= Len(packet)

RefQuestion(packet, i) ==
    SubSeq(packet, RefStart(packet, i) + 1,
           RefName(packet, RefStart(packet, i)).end + 4)

\* 7-bit-clean bytes, as the labels of a question are taken to be
SevenBit(bytes) == \A i \in 1..Len(bytes) : bytes[i] < 128

\* the upstream round trips one inbound query takes
RoundTrips == IF qh.question_count > 1 THEN qh.question_count ELSE 1

(***************************************************************************)
(* C1: in forwarding mode, the response to a query with N > 1 questions is *)
(* a header with QDCOUNT = N, ANCOUNT = the number of replies and the      *)
(* query's ID and OPCODE, then the N questions re-encoded in order, then   *)
(* (after all the questions) the N answer spans in the same order.  Stated *)
(* for the queries whose N questions are written out in full, 7-bit-clean. *)
(***************************************************************************)
C1_MergedLayout ==
    (/\ mode = "forward"
     /\ Responded
     /\ qh.question_count > 1
     /\ RefOk(buf, qh.question_count)
     /\ SevenBit(SliceFrom(buf, HEADER_SIZE))) =>
        LET N == qh.question_count
        IN  /\ Len(response) >= HEADER_SIZE
            /\ WireQDCOUNT(response) = N
            /\ WireANCOUNT(response) = Len(answers)
            /\ SubSeq(response, 1, 2) = SubSeq(buf, 1, 2)
            /\ WireOPCODE(response) = WireOPCODE(buf)
            /\ SliceFrom(response, HEADER_SIZE)
                 = Concat([i \in 1..N |-> RefQuestion(buf, i)])
                   \o Concat([i \in 1..N |-> SliceFrom(answers[i], HEADER_SIZE)])

(***************************************************************************)
(* C2: in forwarding mode, for a query with exactly one question, the      *)
(* datagram sent upstream is the inbound buffer byte for byte and the      *)
(* datagram sent to the client is the upstream's reply byte for byte.      *)
(***************************************************************************)
C2_PassThrough ==
    (mode = "forward" /\ qh.question_count = 1) =>
        /\ (pc = "p_recv" => sentUp = <<buf>>)
        /\ Responded =>
             /\ sentUp = <<buf>>
             /\ Len(answers) = 1
             /\ answers[1] \in UpstreamReplies(buf)
             /\ response = answers[1]

C2_Witness ==
    /\ mode = "forward"
    /\ Responded
    /\ qh.question_count = 1
    /\ Len(buf) > HEADER_SIZE
    /\ WireAA(buf) = 1
    /\ response = UpstreamReply(buf, FALSE)

(***************************************************************************)
(* C3: in forwarding mode the sub-queries go upstream one at a time in the *)
(* order of the questions: at most one is outstanding, the i-th carries    *)
(* the i-th question, and a datagram is accepted only when the response to *)
(* the one before it has been sent.                                        *)
(***************************************************************************)
C3_Sequential ==
    mode = "forward" =>
        /\ Len(sentUp) - Len(answers) \in {0, 1}
        /\ Len(wire) + Len(inbox) <= Len(sentUp) - Len(answers)
        /\ pc = "f_send" => Len(sentUp) = Len(answers)
        /\ qh.question_count > 1 =>
             \A i \in 1..Len(sentUp) :
                /\ i <= Len(names)
                /\ SliceFrom(sentUp[i], HEADER_SIZE)
                     = Utf8Encode(create_question(names[i]))
                /\ (RefOk(buf, i) /\ SevenBit(RefQuestion(buf, i))) =>
                     SliceFrom(sentUp[i], HEADER_SIZE) = RefQuestion(buf, i)
        /\ nRecv - nSent \in {0, 1}
        /\ pc = "recv" => nSent = nRecv

C3_Witness ==
    /\ mode = "forward"
    /\ nRecv = 2
    /\ qh.question_count = 2
    /\ RefOk(buf, 2)
    /\ SevenBit(RefQuestion(buf, 2))
    /\ Len(sentUp) = 2
    /\ Len(answers) = 1
    /\ pc = "f_recv"
    /\ SliceFrom(sentUp[2], HEADER_SIZE) = RefQuestion(buf, 2)

(***************************************************************************)
(* C4: in forwarding mode a response goes to the client only when every    *)
(* upstream round trip of the query has completed: when a send has failed  *)
(* or a reply is lost, the client gets no datagram for that query.         *)
(***************************************************************************)
C4_NoPartial ==
    (mode = "forward" /\ Responded) =>
        /\ ~failed
        /\ Len(sentUp) = RoundTrips
        /\ Len(answers) = RoundTrips
        /\ \A i \in 1..RoundTrips : answers[i] \in UpstreamReplies(sentUp[i])

C4_Witness ==
    /\ mode = "forward"
    /\ failed
    /\ qh.question_count = 2
    /\ Len(sentUp) = 2
    /\ Len(answers) = 1
    /\ wire = <<>>
    /\ inbox = <<>>
    /\ pc = "f_recv"
    /\ nSent < nRecv

(***************************************************************************)
(* C5: a question whose name is a 2-byte compression pointer to an earlier *)
(* name written out in full decodes to that name, and the offset returned  *)
(* is past the 2 pointer bytes and the 4 bytes of type and class.          *)
(***************************************************************************)
PointerTarget(packet, o) == (packet[o + 1] - 192) * 256 + packet[o + 2]

IsPointerQuestion(packet, o) ==
    /\ o + 2 <= Len(packet)
    /\ packet[o + 1] >= 192
    /\ PointerTarget(packet, o) >= HEADER_SIZE
    /\ PointerTarget(packet, o) < o
    /\ RefName(packet, PointerTarget(packet, o)).ok
    /\ RefName(packet, PointerTarget(packet, o)).end <= o

C5_PointerQuestion ==
    \A i \in 1..Len(parsed) :
        IsPointerQuestion(parsed[i].packet, parsed[i].start) =>
            /\ parsed[i].name
                 = Join(RefName(parsed[i].packet,
                                PointerTarget(parsed[i].packet, parsed[i].start)).labels)
            /\ parsed[i].next = parsed[i].start + 2 + 4

(***************************************************************************)
(* C6: decoding a name never reads outside the packet: parse_question      *)
(* never ends with an IndexError, it returns the labels it has.            *)
(***************************************************************************)
C6_NoIndexError == exc # "IndexError"

(***************************************************************************)
(* C7: in direct mode the response to a query with N decoded questions has *)
(* QDCOUNT = N and ANCOUNT = N, the N questions in order and then the N    *)
(* answers in order, the i-th answer with the name of the i-th question,   *)
(* type 1, class 1, TTL 60 and RDLENGTH 4.                                 *)
(***************************************************************************)
WireName(name) == Utf8Encode(as_label_sequence(name))

C7_DirectLayout ==
    (mode = "direct" /\ Responded) =>
        LET N == qh.question_count
            body == SliceFrom(response, HEADER_SIZE)
            qs == Concat([i \in 1..N |-> WireName(names[i]) \o <<0, TYPE, 0, CLASS>>])
            rest == SliceFrom(body, Len(qs))
            rr(i) == WireName(names[i]) \o <<0, TYPE, 0, CLASS, 0, 0, 0, TTL, 0, 4>>
            rrStart(i) == Len(Concat([j \in 1..(i - 1) |-> rr(j) \o <<0, 0, 0, 0>>]))
        IN  /\ Len(names) = N
            /\ WireQDCOUNT(response) = N
            /\ WireANCOUNT(response) = N
            /\ SliceTo(body, Len(qs)) = qs
            /\ Len(rest) = rrStart(N + 1)
            /\ \A i \in 1..N :
                  SubSeq(rest, rrStart(i) + 1, rrStart(i) + Len(rr(i))) = rr(i)

C7_Witness ==
    /\ mode = "direct"
    /\ Responded
    /\ qh.question_count = 2
    /\ names = <<<<97>>, <<98, Dot, 99>>>>

(***************************************************************************)
(* C8: a reply header built from a decoded query header (direct mode, and  *)
(* the merged reply of forwarding mode) has QR = 1, the query's ID, OPCODE *)
(* and RD, AA = TC = RA = Z = 0, and RCODE 0 for OPCODE 0, else RCODE 4.   *)
(***************************************************************************)
BuiltReply == Responded /\ (mode = "direct" \/ qh.question_count > 1)

C8_ReplyHeader ==
    BuiltReply =>
        /\ Len(response) >= HEADER_SIZE
        /\ SubSeq(response, 1, 2) = SubSeq(buf, 1, 2)
        /\ WireQR(response) = 1
        /\ WireOPCODE(response) = WireOPCODE(buf)
        /\ WireRD(response) = WireRD(buf)
        /\ WireAA(response) = 0
        /\ WireTC(response) = 0
        /\ WireRA(response) = 0
        /\ WireZ(response) = 0
        /\ WireRCODE(response) = IF WireOPCODE(buf) = 0 THEN 0 ELSE 4

C8_Witness ==
    /\ BuiltReply
    /\ mode = "forward"
    /\ WireOPCODE(buf) = 5
    /\ WireRD(buf) = 1
    /\ WireAA(buf) = 1
    /\ WireRCODE(response) = 4

(***************************************************************************)
(* C9: header round trip, parse_header(create_header(h)) = h for every     *)
(* header h whose fields are within their widths.                          *)
(***************************************************************************)
C9_RoundTrip == hback # <<>> => hback[1] = h

(***************************************************************************)
(* C9 as amended: parse_header(create_header(h)) is h with its response    *)
(* code replaced by the one derived from the operation code (0 for 0, else *)
(* 4); it is h exactly when h already carries that response code.          *)
(***************************************************************************)
DerivedRcode(x) == IF x.operation_code = 0 THEN 0 ELSE 4

C9_RoundTripDerived ==
    hback # <<>> =>
        /\ hback[1].packet_id = h.packet_id
        /\ hback[1].operation_code = h.operation_code
        /\ hback[1].recursion_desired = h.recursion_desired
        /\ hback[1].question_count = h.question_count
        /\ hback[1].response_code = DerivedRcode(h)
        /\ (hback[1] = h) <=> (h.response_code = DerivedRcode(h))

C9_Witness ==
    /\ hback # <<>>
    /\ hback[1] = h
    /\ h.operation_code = 5
    /\ h.recursion_desired = 1
    /\ h.question_count = 65535
    /\ h.packet_id = 65535

(***************************************************************************)
(* C10: decoding a name always ends: whatever the compression pointers of  *)
(* a packet, parse_question returns or raises after finitely many loop     *)
(* iterations and recursive calls.                                         *)
(***************************************************************************)
C10_Terminates == pc # "hung"

====
